---- MODULE Spec2Model ----
(***************************************************************************)
(* Model of Zillow_Scraper.py: the grid partitioner                        *)
(* (calculate_zoom_sections), the collector loop and the deduplication of  *)
(* get_all_results, save_results and the control flow of main.             *)
(*                                                                         *)
(* Python floats are binary floating-point numbers rounded to nearest,     *)
(* ties to even.  The model keeps that arithmetic and narrows the mantissa *)
(* from 53 bits to MantBits bits; a float is held as an integer number of  *)
(* units of 2^-FracBits degrees.                                           *)
(***************************************************************************)
EXTENDS Integers, Sequences, FiniteSets, TLC

VARIABLES pc, url, ne_lat, ne_long, sw_lat, sw_long, initial_zoom,
          sections_lat, sections_long, lat_step, long_step, sections,
          sec_idx, cat_idx, all_results, accumulated,
          log, errors, writes

vars == <<pc, url, ne_lat, ne_long, sw_lat, sw_long, initial_zoom,
          sections_lat, sections_long, lat_step, long_step, sections,
          sec_idx, cat_idx, all_results, accumulated,
          log, errors, writes>>

\* pc            where main is: "main", "params", "fetch", "wait", "dedupe",
\*               "summary", "save", "save_all", "exit" ("calc"/"returned" for
\*               a lone call of calculate_zoom_sections)
\* url           what the user typed: its kind and the decoded query state
\* ne_lat..sw_long, initial_zoom   the params extracted from the URL
\* sections_lat, sections_long, lat_step, long_step   locals of
\*               calculate_zoom_sections; sections is its return value
\* sec_idx, cat_idx   the positions of the section and category loops
\* all_results   category -> list of records
\* accumulated   all_results as the deduplication loop found it
\* log           the calls made to the collaborators, in order: the fetches
\*               (with their arguments and outcome), the delays, the dedupe
\* errors        the error messages printed
\* writes        the file writes attempted, with their outcome

boxVars == <<ne_lat, ne_long, sw_lat, sw_long, initial_zoom>>

gridVars == <<sections_lat, sections_long, lat_step, long_step, sections>>

-----------------------------------------------------------------------------
(* Bounds of the model *)

MantBits == 6

MaxAccum == 4

-----------------------------------------------------------------------------
(* Floating-point arithmetic *)

FracBits == MantBits + 6

MaxCoord == 2 ^ (MantBits + 5)

Max(a, b) == IF a >= b THEN a ELSE b

RECURSIVE FExp(_, _)
FExp(f, e) == IF f < 2 ^ (MantBits + e) THEN e ELSE FExp(f, e + 1)

\* The float nearest to the rational num/den (in units), ties to even.
RN(num, den) ==
    LET g == 2 ^ FExp(num \div den, 0)
        m == num \div (den * g)
        r == num - m * den * g
        up == 2 * r > den * g \/ (2 * r = den * g /\ m % 2 = 1)
    IN  (IF up THEN m + 1 ELSE m) * g

IsFloat(v) == RN(v, 1) = v

Floats == {v \in 0..MaxCoord : IsFloat(v)}

FAdd(a, b) == RN(a + b, 1)

FAbsDiff(a, b) == RN(IF a >= b THEN a - b ELSE b - a, 1)

FMul(a, b) == RN(a * b, 2 ^ FracBits)

FDiv(a, b) == RN(a * 2 ^ FracBits, b)

FromInt(n) == n * 2 ^ FracBits

ToInt(a) == a \div 2 ^ FracBits

\* The literal 0.01
TargetCell == RN(2 ^ FracBits, 100)

-----------------------------------------------------------------------------
(* ZillowScraper.__init__ *)

categories == <<"for_sale", "for_rent", "sold">>

MIN_ZOOM_LEVEL == 15

DefaultZoom == 13

-----------------------------------------------------------------------------
(* calculate_zoom_sections *)

sections_along_round(distance) ==
    Max(1, ToInt(FAdd(FDiv(distance, TargetCell), FromInt(1) \div 2)))

sections_along(distance) == Max(1, ToInt(FDiv(distance, TargetCell)))

step_of(distance, n) == FDiv(distance, FromInt(n))

make_section_nominal(sw_la, sw_lo, la_step, lo_step, i, j) ==
    [ne_lat  |-> FAdd(sw_la, FMul(FromInt(i + 1), TargetCell)),
     sw_lat  |-> FAdd(sw_la, FMul(FromInt(i), la_step)),
     ne_long |-> FAdd(sw_lo, FMul(FromInt(j + 1), TargetCell)),
     sw_long |-> FAdd(sw_lo, FMul(FromInt(j), lo_step)),
     zoom    |-> MIN_ZOOM_LEVEL]

make_section_swapped(sw_la, sw_lo, la_step, lo_step, i, j) ==
    [ne_lat  |-> FAdd(sw_la, FMul(FromInt(j + 1), la_step)),
     sw_lat  |-> FAdd(sw_la, FMul(FromInt(j), la_step)),
     ne_long |-> FAdd(sw_lo, FMul(FromInt(i + 1), lo_step)),
     sw_long |-> FAdd(sw_lo, FMul(FromInt(i), lo_step)),
     zoom    |-> MIN_ZOOM_LEVEL]

make_section_zoom_per_cell(sw_la, sw_lo, la_step, lo_step, i, j) ==
    [ne_lat  |-> FAdd(sw_la, FMul(FromInt(i + 1), la_step)),
     sw_lat  |-> FAdd(sw_la, FMul(FromInt(i), la_step)),
     ne_long |-> FAdd(sw_lo, FMul(FromInt(j + 1), lo_step)),
     sw_long |-> FAdd(sw_lo, FMul(FromInt(j), lo_step)),
     zoom    |-> MIN_ZOOM_LEVEL + i + j]

make_section(sw_la, sw_lo, la_step, lo_step, i, j) ==
    [ne_lat  |-> FAdd(sw_la, FMul(FromInt(i + 1), la_step)),
     sw_lat  |-> FAdd(sw_la, FMul(FromInt(i), la_step)),
     ne_long |-> FAdd(sw_lo, FMul(FromInt(j + 1), lo_step)),
     sw_long |-> FAdd(sw_lo, FMul(FromInt(j), lo_step)),
     zoom    |-> MIN_ZOOM_LEVEL]

\* The inner loop: the sections one turn of the outer loop appends, j = 0,
\* 1, ..., n_long - 1 in this order
long_loop(sw_la, sw_lo, la_step, lo_step, n_long, i) ==
    [j1 \in 1..n_long |-> make_section(sw_la, sw_lo, la_step, lo_step, i, j1 - 1)]

\* The outer loop from turn i on: what it appends to sections
RECURSIVE lat_loop(_, _, _, _, _, _, _)
lat_loop(sw_la, sw_lo, la_step, lo_step, n_lat, n_long, i) ==
    IF i = n_lat THEN <<>>
    ELSE long_loop(sw_la, sw_lo, la_step, lo_step, n_long, i)
         \o lat_loop(sw_la, sw_lo, la_step, lo_step, n_lat, n_long, i + 1)

\* The body of calculate_zoom_sections: its locals and its return value.
calculate_zoom_sections ==
    LET lat_distance  == FAbsDiff(ne_lat, sw_lat)
        long_distance == FAbsDiff(ne_long, sw_long)
    IN  /\ sections_lat' = sections_along(lat_distance)
        /\ sections_long' = sections_along(long_distance)
        /\ lat_step' = step_of(lat_distance, sections_lat')
        /\ long_step' = step_of(long_distance, sections_long')
        /\ sections' = <<>> \o lat_loop(sw_lat, sw_long, lat_step', long_step',
                                       sections_lat', sections_long', 0)

-----------------------------------------------------------------------------
(* Partitioner specification: the inputs are drawn from the floats *)

FineSw == {0, 3, 2 ^ (MantBits - 1) + 1}

FinePairs == {p \in FineSw \X Floats : p[1] <= p[2]}

CoarsePairs == {<<0, 0>>, <<0, RN(TargetCell, 2)>>, <<0, TargetCell>>,
                <<0, RN(2 * TargetCell, 1)>>, <<0, RN(7 * TargetCell, 2)>>}

Zooms == {13, 14}

InitPart ==
    /\ pc = "calc"
    /\ url = "none"
    /\ \E la \in FinePairs \cup CoarsePairs, lo \in FinePairs \cup CoarsePairs :
          /\ (la \in CoarsePairs \/ lo \in CoarsePairs)
          /\ sw_lat = la[1] /\ ne_lat = la[2]
          /\ sw_long = lo[1] /\ ne_long = lo[2]
    /\ initial_zoom \in Zooms
    /\ sections_lat = 0 /\ sections_long = 0
    /\ lat_step = 0 /\ long_step = 0
    /\ sections = <<>>
    /\ sec_idx = 0 /\ cat_idx = 0
    /\ all_results = <<>>
    /\ accumulated = <<>>
    /\ log = <<>> /\ errors = <<>> /\ writes = <<>>

Partition ==
    /\ pc = "calc"
    /\ calculate_zoom_sections
    /\ pc' = "returned"
    /\ UNCHANGED <<url, boxVars, sec_idx, cat_idx, all_results, accumulated,
                   log, errors, writes>>

NextPart == Partition

SpecPart == InitPart /\ [][NextPart]_vars

-----------------------------------------------------------------------------
(* Listing records and the deduplication of get_all_results *)

None == "None"

get_zpid(result) == IF "zpid" \in DOMAIN result THEN result.zpid ELSE None

\* Python truth value of a zpid
Truthy(zpid) == zpid # None /\ zpid # ""

RECURSIVE unique_loop_no_truth_test(_, _, _, _)
unique_loop_no_truth_test(results, k, seen_zpids, unique_results) ==
    IF k > Len(results) THEN unique_results
    ELSE LET zpid == get_zpid(results[k])
         IN  IF zpid \notin seen_zpids
             THEN unique_loop_no_truth_test(results, k + 1, seen_zpids \cup {zpid},
                                            Append(unique_results, results[k]))
             ELSE unique_loop_no_truth_test(results, k + 1, seen_zpids, unique_results)

RECURSIVE unique_loop(_, _, _, _)
unique_loop(results, k, seen_zpids, unique_results) ==
    IF k > Len(results) THEN unique_results
    ELSE LET zpid == get_zpid(results[k])
         IN  IF Truthy(zpid) /\ zpid \notin seen_zpids
             THEN unique_loop(results, k + 1, seen_zpids \cup {zpid},
                              Append(unique_results, results[k]))
             ELSE unique_loop(results, k + 1, seen_zpids, unique_results)

CategorySet == {categories[k] : k \in 1..Len(categories)}

-----------------------------------------------------------------------------
(* main: the URL, extract_map_bounds_from_url and the start of the run *)

Malformed == {"no_query_state", "bad_json", "no_map_bounds"}

RunBoxes == {[north |-> 3, south |-> 3, east |-> 0, west |-> 0],
             [north |-> RN(2 * TargetCell, 1), south |-> 0, east |-> 0, west |-> 0]}

Urls ==
    {[kind |-> k] : k \in Malformed \cup {"non_numeric_bounds"}}
    \cup {[kind |-> k, mapBounds |-> b] : k \in {"ok", "ok_no_path"}, b \in RunBoxes}
    \cup {[kind |-> k, mapBounds |-> b, mapZoom |-> z] :
             k \in {"ok", "ok_no_path"}, b \in RunBoxes, z \in {14}}

InitRun ==
    /\ pc = "main"
    /\ url \in Urls
    /\ ne_lat = 0 /\ ne_long = 0 /\ sw_lat = 0 /\ sw_long = 0
    /\ initial_zoom = 0
    /\ sections_lat = 0 /\ sections_long = 0
    /\ lat_step = 0 /\ long_step = 0
    /\ sections = <<>>
    /\ sec_idx = 0 /\ cat_idx = 0
    /\ all_results = <<>>
    /\ accumulated = <<>>
    /\ log = <<>> /\ errors = <<>> /\ writes = <<>>

ExtractParams_no_return ==
    /\ pc = "main"
    /\ IF url.kind \in Malformed
       THEN /\ errors' = errors \o <<"Error parsing URL", "Failed to extract parameters from URL">>
            /\ initial_zoom' = DefaultZoom
            /\ UNCHANGED <<ne_lat, ne_long, sw_lat, sw_long>>
       ELSE /\ IF url.kind = "non_numeric_bounds"
               THEN UNCHANGED <<ne_lat, ne_long, sw_lat, sw_long>>
               ELSE /\ ne_lat' = url.mapBounds.north
                    /\ ne_long' = url.mapBounds.east
                    /\ sw_lat' = url.mapBounds.south
                    /\ sw_long' = url.mapBounds.west
            /\ initial_zoom' = IF "mapZoom" \in DOMAIN url THEN url.mapZoom ELSE DefaultZoom
            /\ UNCHANGED errors
    /\ pc' = "params"
    /\ UNCHANGED <<url, gridVars, sec_idx, cat_idx, all_results, accumulated, log, writes>>

\* main reads the URL and calls extract_map_bounds_from_url
ExtractParams ==
    /\ pc = "main"
    /\ IF url.kind \in Malformed
       THEN /\ errors' = errors \o <<"Error parsing URL", "Failed to extract parameters from URL">>
            /\ pc' = "exit"
            /\ UNCHANGED boxVars
       ELSE /\ IF url.kind = "non_numeric_bounds"
               THEN UNCHANGED <<ne_lat, ne_long, sw_lat, sw_long>>
               ELSE /\ ne_lat' = url.mapBounds.north
                    /\ ne_long' = url.mapBounds.east
                    /\ sw_lat' = url.mapBounds.south
                    /\ sw_long' = url.mapBounds.west
            /\ initial_zoom' = IF "mapZoom" \in DOMAIN url THEN url.mapZoom ELSE DefaultZoom
            /\ pc' = "params"
            /\ UNCHANGED errors
    /\ UNCHANGED <<url, gridVars, sec_idx, cat_idx, all_results, accumulated, log, writes>>

\* main prints the parameters and calls get_all_results, which partitions
\* the area and creates the empty result lists
StartCoverage ==
    /\ pc = "params"
    /\ IF url.kind = "non_numeric_bounds"
       THEN /\ errors' = Append(errors, "Error during execution")
            /\ pc' = "exit"
            /\ UNCHANGED <<gridVars, sec_idx, cat_idx, all_results>>
       ELSE /\ calculate_zoom_sections
            /\ all_results' = [c \in CategorySet |-> <<>>]
            /\ sec_idx' = 1
            /\ cat_idx' = 1
            /\ pc' = "fetch"
            /\ UNCHANGED errors
    /\ UNCHANGED <<url, boxVars, accumulated, log, writes>>

-----------------------------------------------------------------------------
(* get_results_for_box and the collection loop of get_all_results *)

FetchOutcomes == {"raise", "no_map_results", "empty", "one", "two"}

\* What pyzill answers for a section
pyzill_response(outcome, s) ==
    CASE outcome = "no_map_results" -> [user |-> "guest"]
      [] outcome = "empty" -> [mapResults |-> <<>>]
      [] outcome = "one" -> [mapResults |-> <<[zpid |-> "a", detail |-> s]>>]
      [] outcome = "two" -> [mapResults |-> <<[zpid |-> "b", detail |-> s], [detail |-> s]>>]

get_results_for_box(outcome, s) ==
    IF outcome = "raise" THEN <<>>
    ELSE LET results == pyzill_response(outcome, s)
         IN  IF "mapResults" \in DOMAIN results THEN results.mapResults ELSE <<>>

FetchEvent(outcome) ==
    [ev |-> "fetch", section |-> sec_idx, category |-> categories[cat_idx],
     box |-> [ne_lat |-> sections[sec_idx].ne_lat, ne_long |-> sections[sec_idx].ne_long,
              sw_lat |-> sections[sec_idx].sw_lat, sw_long |-> sections[sec_idx].sw_long],
     zoom |-> sections[sec_idx].zoom,
     failed |-> (outcome = "raise"),
     page |-> get_results_for_box(outcome, sec_idx)]

Fetch_propagates ==
    /\ pc = "fetch"
    /\ \E outcome \in FetchOutcomes :
          LET results == get_results_for_box(outcome, sec_idx)
              category == categories[cat_idx]
          IN  /\ log' = Append(log, FetchEvent(outcome))
              /\ errors' = IF outcome = "raise"
                           THEN Append(errors, "Error during execution")
                           ELSE errors
              /\ all_results' = IF results # <<>>
                                THEN [all_results EXCEPT ![category] = @ \o results]
                                ELSE all_results
              /\ pc' = IF outcome = "raise" THEN "exit" ELSE "wait"
    /\ UNCHANGED <<url, boxVars, gridVars, sec_idx, cat_idx, accumulated, writes>>

Fetch ==
    /\ pc = "fetch"
    /\ \E outcome \in FetchOutcomes :
          LET results == get_results_for_box(outcome, sec_idx)
              category == categories[cat_idx]
          IN  /\ log' = Append(log, FetchEvent(outcome))
              /\ errors' = IF outcome = "raise"
                           THEN Append(errors, "Error fetching results")
                           ELSE errors
              /\ all_results' = IF results # <<>>
                                THEN [all_results EXCEPT ![category] = @ \o results]
                                ELSE all_results
    /\ pc' = "wait"
    /\ UNCHANGED <<url, boxVars, gridVars, sec_idx, cat_idx, accumulated, writes>>

Wait_once_per_section ==
    /\ pc = "wait"
    /\ log' = IF cat_idx = Len(categories) THEN Append(log, [ev |-> "delay"]) ELSE log
    /\ IF cat_idx < Len(categories)
       THEN cat_idx' = cat_idx + 1 /\ pc' = "fetch" /\ UNCHANGED sec_idx
       ELSE IF sec_idx < Len(sections)
            THEN sec_idx' = sec_idx + 1 /\ cat_idx' = 1 /\ pc' = "fetch"
            ELSE pc' = "dedupe" /\ UNCHANGED <<sec_idx, cat_idx>>
    /\ UNCHANGED <<url, boxVars, gridVars, all_results, accumulated, errors, writes>>

\* wait_random_time, then the next category or the next section
Wait ==
    /\ pc = "wait"
    /\ log' = Append(log, [ev |-> "delay"])
    /\ IF cat_idx < Len(categories)
       THEN cat_idx' = cat_idx + 1 /\ pc' = "fetch" /\ UNCHANGED sec_idx
       ELSE IF sec_idx < Len(sections)
            THEN sec_idx' = sec_idx + 1 /\ cat_idx' = 1 /\ pc' = "fetch"
            ELSE pc' = "dedupe" /\ UNCHANGED <<sec_idx, cat_idx>>
    /\ UNCHANGED <<url, boxVars, gridVars, all_results, accumulated, errors, writes>>

\* The "Remove duplicates" loop; get_all_results returns
RemoveDuplicates ==
    /\ pc = "dedupe"
    /\ accumulated' = all_results
    /\ all_results' = [c \in CategorySet |-> unique_loop(all_results[c], 1, {}, <<>>)]
    /\ log' = Append(log, [ev |-> "dedupe"])
    /\ pc' = "summary"
    /\ UNCHANGED <<url, boxVars, gridVars, sec_idx, cat_idx, errors, writes>>

-----------------------------------------------------------------------------
(* main after get_all_results, and save_results *)

\* main prints the totals and derives the base filename from the URL path
PrepareSave ==
    /\ pc = "summary"
    /\ IF url.kind = "ok_no_path"
       THEN /\ errors' = Append(errors, "Error during execution")
            /\ pc' = "exit"
            /\ UNCHANGED cat_idx
       ELSE /\ cat_idx' = 1
            /\ pc' = "save"
            /\ UNCHANGED errors
    /\ UNCHANGED <<url, boxVars, gridVars, sec_idx, all_results, accumulated, log, writes>>

SaveCategory_propagates ==
    /\ pc = "save"
    /\ \E ok \in BOOLEAN :
          /\ writes' = Append(writes, [file |-> categories[cat_idx], ok |-> ok])
          /\ errors' = IF ok THEN errors ELSE Append(errors, "Error during execution")
          /\ IF ~ok THEN pc' = "exit" /\ UNCHANGED cat_idx
             ELSE IF cat_idx < Len(categories)
                  THEN cat_idx' = cat_idx + 1 /\ pc' = "save"
                  ELSE pc' = "save_all" /\ UNCHANGED cat_idx
    /\ UNCHANGED <<url, boxVars, gridVars, sec_idx, all_results, accumulated, log>>

\* One turn of the loop over the category files
SaveCategory ==
    /\ pc = "save"
    /\ \E ok \in BOOLEAN :
          /\ writes' = Append(writes, [file |-> categories[cat_idx], ok |-> ok])
          /\ errors' = IF ok THEN errors ELSE Append(errors, "Error saving results")
    /\ IF cat_idx < Len(categories)
       THEN cat_idx' = cat_idx + 1 /\ pc' = "save"
       ELSE pc' = "save_all" /\ UNCHANGED cat_idx
    /\ UNCHANGED <<url, boxVars, gridVars, sec_idx, all_results, accumulated, log>>

\* The combined file; save_results and main return
SaveCombined ==
    /\ pc = "save_all"
    /\ \E ok \in BOOLEAN :
          /\ writes' = Append(writes, [file |-> "all", ok |-> ok])
          /\ errors' = IF ok THEN errors ELSE Append(errors, "Error saving combined results")
    /\ pc' = "exit"
    /\ UNCHANGED <<url, boxVars, gridVars, sec_idx, cat_idx, all_results, accumulated, log>>

NextRun ==
    \/ ExtractParams
    \/ StartCoverage
    \/ Fetch
    \/ Wait
    \/ RemoveDuplicates
    \/ PrepareSave
    \/ SaveCategory
    \/ SaveCombined

SpecRun == InitRun /\ [][NextRun]_vars

-----------------------------------------------------------------------------
(* Deduplication specification: the accumulated lists are drawn from the   *)
(* sequences of at most MaxAccum records, one category populated           *)

ListingRecords ==
    {[zpid |-> "a", detail |-> 1], [zpid |-> "a", detail |-> 2],
     [zpid |-> "b", detail |-> 1], [zpid |-> "", detail |-> 1],
     [zpid |-> None, detail |-> 1], [detail |-> 1]}

SeqsUpTo(S, n) == UNION {[1..k -> S] : k \in 0..n}

InitDedupe ==
    /\ pc = "dedupe"
    /\ url = [kind |-> "ok"]
    /\ ne_lat = 0 /\ ne_long = 0 /\ sw_lat = 0 /\ sw_long = 0
    /\ initial_zoom = DefaultZoom
    /\ sections_lat = 0 /\ sections_long = 0
    /\ lat_step = 0 /\ long_step = 0
    /\ sections = <<>>
    /\ sec_idx = 0 /\ cat_idx = 0
    /\ \E c \in CategorySet, results \in SeqsUpTo(ListingRecords, MaxAccum) :
          all_results = [d \in CategorySet |-> IF d = c THEN results ELSE <<>>]
    /\ accumulated = <<>>
    /\ log = <<>> /\ errors = <<>> /\ writes = <<>>

NextDedupe == RemoveDuplicates

SpecDedupe == InitDedupe /\ [][NextDedupe]_vars

-----------------------------------------------------------------------------
(* Properties of the partitioner, stated for SpecPart *)

Returned == pc = "returned"

RowOf(k) == (k - 1) \div sections_long

ColOf(k) == (k - 1) % sections_long

\* The float just below c
Pred(c) == CHOOSE v \in 0..(c - 1) : IsFloat(v) /\ \A w \in (v + 1)..(c - 1) : ~IsFloat(w)

LatExtent(s) == s.ne_lat - s.sw_lat

LongExtent(s) == s.ne_long - s.sw_long

\* C1: for a box with north > south and east > west the sections tile the box
\* exactly: the first row starts at the south edge, the last row ends at the
\* north edge, the first column starts at the west edge, the last column ends
\* at the east edge, and each row/column begins where the previous one ends.
C1_ExactTiling ==
    (Returned /\ ne_lat > sw_lat /\ ne_long > sw_long) =>
        /\ Len(sections) = sections_lat * sections_long
        /\ \A k \in 1..Len(sections) :
              /\ RowOf(k) = 0 => sections[k].sw_lat = sw_lat
              /\ RowOf(k) = sections_lat - 1 => sections[k].ne_lat = ne_lat
              /\ ColOf(k) = 0 => sections[k].sw_long = sw_long
              /\ ColOf(k) = sections_long - 1 => sections[k].ne_long = ne_long
              /\ RowOf(k) > 0 => sections[k].sw_lat = sections[k - sections_long].ne_lat
              /\ ColOf(k) > 0 => sections[k].sw_long = sections[k - 1].ne_long
              /\ sections[k].sw_lat < sections[k].ne_lat
              /\ sections[k].sw_long < sections[k].ne_long

\* C2 as stated: a box whose latitude span is 0 or whose longitude span is 0
\* yields exactly one section, equal to the input box.
C2_OneSpanZeroSingleSection ==
    (Returned /\ (ne_lat = sw_lat \/ ne_long = sw_long)) =>
        /\ Len(sections) = 1
        /\ sections[1].ne_lat = ne_lat /\ sections[1].sw_lat = sw_lat
        /\ sections[1].ne_long = ne_long /\ sections[1].sw_long = sw_long

\* C2 amended: a box whose latitude span and longitude span are both 0 yields
\* exactly one section, equal to the input box; when only one span is 0, that
\* axis has a single row (column) whose two bounds equal the input coordinate,
\* and the other axis is still divided.
C2_BothSpansZeroSingleSection ==
    Returned =>
        /\ (ne_lat = sw_lat /\ ne_long = sw_long) =>
              /\ Len(sections) = 1
              /\ sections[1].ne_lat = ne_lat /\ sections[1].sw_lat = sw_lat
              /\ sections[1].ne_long = ne_long /\ sections[1].sw_long = sw_long
        /\ ne_lat = sw_lat =>
              /\ Len(sections) = sections_long
              /\ \A k \in 1..Len(sections) :
                    sections[k].ne_lat = ne_lat /\ sections[k].sw_lat = sw_lat
        /\ ne_long = sw_long =>
              /\ Len(sections) = sections_lat
              /\ \A k \in 1..Len(sections) :
                    sections[k].ne_long = ne_long /\ sections[k].sw_long = sw_long

C2_Witness ==
    /\ Returned
    /\ sw_lat = 3 /\ ne_lat = 3 /\ sw_long = 0 /\ ne_long = 0
    /\ sections = <<[ne_lat |-> 3, sw_lat |-> 3, ne_long |-> 0, sw_long |-> 0,
                     zoom |-> MIN_ZOOM_LEVEL]>>

\* C3 as stated: every section of every box has a latitude extent and a
\* longitude extent of at least the target cell size.
C3_ExtentAtLeastTarget ==
    Returned =>
        \A k \in 1..Len(sections) :
            /\ LatExtent(sections[k]) >= TargetCell
            /\ LongExtent(sections[k]) >= TargetCell

\* C3 amended: when a span is at least the target cell size, the step the
\* grid uses on that axis (span / count, the count being floored) is never
\* below the float just under the target; when a span is below the target,
\* the axis has one row (column) and its step is the span itself.
C3_StepAtLeastTarget ==
    Returned =>
        /\ FAbsDiff(ne_lat, sw_lat) >= TargetCell => lat_step >= Pred(TargetCell)
        /\ FAbsDiff(ne_long, sw_long) >= TargetCell => long_step >= Pred(TargetCell)
        /\ FAbsDiff(ne_lat, sw_lat) < TargetCell =>
              sections_lat = 1 /\ lat_step = FAbsDiff(ne_lat, sw_lat)
        /\ FAbsDiff(ne_long, sw_long) < TargetCell =>
              sections_long = 1 /\ long_step = FAbsDiff(ne_long, sw_long)

C3_Witness ==
    /\ Returned
    /\ FAbsDiff(ne_lat, sw_lat) >= TargetCell
    /\ sections_lat > 1
    /\ lat_step < TargetCell
    /\ FAbsDiff(ne_long, sw_long) < TargetCell
    /\ Len(sections) = sections_lat

\* C8: the sections come in row-major order from the southwest cell: the
\* section at position r * columns + c is the cell of row r and column c,
\* rows run northward from the south edge and columns eastward from the west
\* edge.
C8_RowMajorFromSouthwest ==
    Returned =>
        /\ Len(sections) = sections_lat * sections_long
        /\ \A r \in 0..(sections_lat - 1), c \in 0..(sections_long - 1) :
              LET s == sections[r * sections_long + c + 1]
              IN  /\ s.sw_lat = FAdd(sw_lat, FMul(FromInt(r), lat_step))
                  /\ s.ne_lat = FAdd(sw_lat, FMul(FromInt(r + 1), lat_step))
                  /\ s.sw_long = FAdd(sw_long, FMul(FromInt(c), long_step))
                  /\ s.ne_long = FAdd(sw_long, FMul(FromInt(c + 1), long_step))
        /\ sections[1].sw_lat = sw_lat /\ sections[1].sw_long = sw_long
        /\ \A k \in 1..(Len(sections) - 1) :
              /\ ColOf(k + 1) > 0 =>
                    /\ sections[k + 1].sw_long >= sections[k].ne_long
                    /\ sections[k + 1].sw_lat = sections[k].sw_lat
              /\ ColOf(k + 1) = 0 =>
                    /\ sections[k + 1].sw_lat >= sections[k].ne_lat
                    /\ sections[k + 1].sw_long = sw_long

C8_Witness ==
    /\ Returned
    /\ sections_lat >= 3 /\ sections_long >= 2
    /\ sections[sections_long + 1].sw_lat > sections[1].sw_lat
    /\ sections[2].sw_long > sections[1].sw_long

-----------------------------------------------------------------------------
(* Properties of the deduplication, stated for SpecDedupe *)

Deduped == pc = "summary"

\* The positions of the input that are kept: a non-empty identifier that no
\* earlier record carries
KeptPositions(input) ==
    {k \in 1..Len(input) :
        /\ Truthy(get_zpid(input[k]))
        /\ \A j \in 1..(k - 1) : get_zpid(input[j]) # get_zpid(input[k])}

\* C6: after deduplication a record is in the output iff it has a non-empty
\* zpid and no earlier record of the input has the same zpid; the kept
\* records stay in input order, so no zpid appears twice and no record with
\* a missing or empty zpid appears.
C6_DedupKeepsFirstOccurrences ==
    Deduped =>
        \A c \in CategorySet :
            LET input == accumulated[c]
                output == all_results[c]
                kept == KeptPositions(input)
            IN  /\ Len(output) = Cardinality(kept)
                /\ \A n \in 1..Len(output) :
                      \E k \in kept :
                          /\ Cardinality({j \in kept : j <= k}) = n
                          /\ output[n] = input[k]
                /\ \A m, n \in 1..Len(output) :
                      m # n => get_zpid(output[m]) # get_zpid(output[n])
                /\ \A n \in 1..Len(output) : Truthy(get_zpid(output[n]))

C6_Witness ==
    /\ Deduped
    /\ accumulated["for_rent"] =
          <<[zpid |-> "a", detail |-> 1], [detail |-> 1],
            [zpid |-> "b", detail |-> 1], [zpid |-> "a", detail |-> 2]>>
    /\ all_results["for_rent"] =
          <<[zpid |-> "a", detail |-> 1], [zpid |-> "b", detail |-> 1]>>

-----------------------------------------------------------------------------
(* Properties of the run, stated for SpecRun *)

Fetches == SelectSeq(log, LAMBDA e : e.ev = "fetch")

FailedFetches == {k \in 1..Len(Fetches) : Fetches[k].failed}

HasDeduped == \E k \in 1..Len(log) : log[k].ev = "dedupe"

\* C4 as stated: every section carries the zoom the caller passed in, and
\* that tag is the zoom handed to the fetch.
C4_SectionsCarryCallerZoom ==
    pc \notin {"main", "params"} =>
        /\ \A k \in 1..Len(sections) : sections[k].zoom = initial_zoom
        /\ \A k \in 1..Len(Fetches) : Fetches[k].zoom = sections[Fetches[k].section].zoom

\* C4 amended: every section carries the fixed MIN_ZOOM_LEVEL (15), the same
\* for all cells and whatever zoom the caller passed in, and that tag is the
\* zoom handed to the fetch for that section.
C4_SectionsCarryMinZoomLevel ==
    pc \notin {"main", "params"} =>
        /\ \A k \in 1..Len(sections) : sections[k].zoom = MIN_ZOOM_LEVEL
        /\ \A k \in 1..Len(Fetches) : Fetches[k].zoom = sections[Fetches[k].section].zoom

C4_Witness ==
    /\ pc = "exit"
    /\ initial_zoom = 14
    /\ Len(sections) = 2
    /\ Len(Fetches) = 2 * Len(categories)
    /\ \A k \in 1..Len(Fetches) : Fetches[k].zoom = MIN_ZOOM_LEVEL

\* The non-empty identifiers a fetch returned
PageIds(f) == {get_zpid(f.page[k]) : k \in 1..Len(f.page)} \ {None, ""}

ResultIds(c) == {get_zpid(all_results[c][k]) : k \in 1..Len(all_results[c])}

RECURSIVE PagesOf(_, _)
PagesOf(c, k) ==
    IF k = 0 THEN <<>>
    ELSE PagesOf(c, k - 1) \o (IF Fetches[k].category = c THEN Fetches[k].page ELSE <<>>)

\* C5: when the fetch of exactly one (section, category) pair fails, every
\* other pair is still fetched and get_all_results returns; the failed pair
\* contributes no record, and the list of its category holds every distinct
\* non-empty identifier the other pairs of that category returned.
C5_OneFailedFetchIsIsolated ==
    /\ (pc = "exit" /\ Fetches # <<>>) => HasDeduped
    /\ (HasDeduped /\ Cardinality(FailedFetches) = 1) =>
          /\ Len(Fetches) = Len(sections) * Len(categories)
          /\ \A k \in FailedFetches : Fetches[k].page = <<>>
          /\ \A c \in CategorySet :
                /\ accumulated[c] = PagesOf(c, Len(Fetches))
                /\ \A k \in 1..Len(Fetches) :
                      (Fetches[k].category = c /\ k \notin FailedFetches) =>
                          PageIds(Fetches[k]) \subseteq ResultIds(c)

C5_Witness ==
    /\ pc = "summary"
    /\ Len(sections) = 2
    /\ FailedFetches = {1}
    /\ Fetches[4].page = <<[zpid |-> "a", detail |-> 2]>>
    /\ all_results["for_sale"] = <<[zpid |-> "a", detail |-> 2]>>
    /\ ResultIds("sold") = {"a", "b"}

\* The event the run must log at position k: fetch and delay alternate, the
\* fetches going through the sections in order and, within a section,
\* through the categories in order; dedupe comes last
ExpectedEvent(k) ==
    IF k > 2 * Len(sections) * Len(categories) THEN [ev |-> "dedupe"]
    ELSE IF k % 2 = 0 THEN [ev |-> "delay"]
    ELSE [ev |-> "fetch",
          section |-> ((k \div 2) \div Len(categories)) + 1,
          category |-> categories[((k \div 2) % Len(categories)) + 1]]

EventKey(e) ==
    IF e.ev = "fetch" THEN [ev |-> "fetch", section |-> e.section, category |-> e.category]
    ELSE [ev |-> e.ev]

\* C7: the (section, category) pairs are processed one at a time, sections
\* outer and categories inner, each fetch followed by exactly one delay
\* (also after a failed or empty fetch), so a run makes sections x categories
\* fetches and as many delays; deduplication starts after the last delay.
C7_SequentialFetchDelayOrder ==
    /\ Len(log) <= 2 * Len(sections) * Len(categories) + 1
    /\ \A k \in 1..Len(log) : EventKey(log[k]) = ExpectedEvent(k)
    /\ pc = "wait" => (Len(log) % 2 = 1 /\ log[Len(log)].ev = "fetch")
    /\ pc = "fetch" => Len(log) % 2 = 0
    /\ pc \in {"summary", "save", "save_all"} =>
          Len(log) = 2 * Len(sections) * Len(categories) + 1

C7_Witness ==
    /\ pc = "summary"
    /\ Len(sections) = 2
    /\ Len(log) = 13
    /\ log[1].failed /\ log[2].ev = "delay"
    /\ log[3].page = <<>> /\ ~log[3].failed /\ log[4].ev = "delay"
    /\ log[7].section = 2 /\ log[7].category = "for_sale"
    /\ log[13].ev = "dedupe"

\* C9 as stated: a malformed URL (query state missing or unparseable, bounds
\* missing) is reported and ends the run without any fetch and without any
\* write, and a run that ends before collection had such a URL.
C9_OnlyMalformedUrlStopsBeforeCollection ==
    /\ url.kind \in Malformed => (log = <<>> /\ writes = <<>>)
    /\ (url.kind \in Malformed /\ pc = "exit") => errors # <<>>
    /\ (pc = "exit" /\ log = <<>>) => url.kind \in Malformed

\* C9 amended: a malformed URL (query state missing or unparseable, bounds
\* missing) is reported and ends the run without any fetch and without any
\* write; the only other run that ends before collection is one whose
\* bounds are present but are not numbers, which main's handler reports.
C9_MalformedUrlStopsBeforeCollection ==
    /\ url.kind \in Malformed => (log = <<>> /\ writes = <<>>)
    /\ (url.kind \in Malformed /\ pc = "exit") =>
          errors = <<"Error parsing URL", "Failed to extract parameters from URL">>
    /\ (pc = "exit" /\ log = <<>>) =>
          (url.kind \in Malformed \cup {"non_numeric_bounds"} /\ errors # <<>> /\ writes = <<>>)
    /\ (url.kind \notin Malformed \cup {"non_numeric_bounds"} /\ pc \notin {"main", "params"}) =>
          (pc = "fetch" /\ log = <<>>) \/ log # <<>>

C9_Witness ==
    /\ pc = "exit"
    /\ url.kind = "no_map_bounds"
    /\ log = <<>> /\ writes = <<>>
    /\ errors # <<>>

ExpectedFiles == categories \o <<"all">>

\* C10: save_results attempts the write of every category file in category
\* order and then of the combined file, whatever earlier write failed, and
\* returns normally.
C10_EveryFileIsAttempted ==
    /\ Len(writes) <= Len(ExpectedFiles)
    /\ \A k \in 1..Len(writes) : writes[k].file = ExpectedFiles[k]
    /\ pc = "save" => Len(writes) = cat_idx - 1
    /\ pc = "save_all" => Len(writes) = Len(categories)
    /\ (pc = "exit" /\ writes # <<>>) =>
          /\ Len(writes) = Len(ExpectedFiles)
          /\ \A k \in 1..Len(errors) : errors[k] # "Error during execution"

C10_Witness ==
    /\ pc = "exit"
    /\ Len(writes) = Len(ExpectedFiles)
    /\ ~writes[1].ok /\ ~writes[2].ok /\ writes[3].ok /\ ~writes[4].ok

====
